---- MODULE Spec2Model ----
(***************************************************************************)
(* A model of gpt2_client.py: the byte-level BPE tokenizer (Encoder), the  *)
(* sampler (top_k_logits and the categorical draw), the generation loop    *)
(* (sample_sequence over model) and the client methods that drive them     *)
(* (GPT2Client.generate, GPT2Client.generate_batch_from_prompts).          *)
(*                                                                         *)
(* Strings are sequences of code points, byte strings sequences of bytes.  *)
(* Token ids are 0-based as in the program; sequences are 1-based.         *)
(***************************************************************************)
EXTENDS Integers, Sequences, FiniteSets, TLC

VARIABLES
    bpe_ranks,   \* Encoder.bpe_ranks, kept as the merge list it is built from
    encoder,     \* Encoder.encoder / Encoder.decoder: the vocabulary, id = index - 1
    cache,       \* Encoder.cache: pre-token -> joined bpe result
    text,        \* argument of the last Encoder.encode call
    enc_out,     \* its outcome: [status, ids]
    dec_in,      \* argument of the last Encoder.decode call
    dec_out,     \* its outcome: [status, text]
    last,        \* the last tokenizer operation
    device,      \* the build the graph runs on: "cpu" or "gpu"
    length,      \* sample_sequence's length
    temperature, \* sample_sequence's temperature
    top_k,       \* sample_sequence's top_k
    context,     \* the initial token sequence (tf.fill of start_token, or context)
    past,        \* loop variable past: one entry per cached position
    prev,        \* loop variable prev: the tokens the next model call is given
    output,      \* loop variable output
    iters,       \* iterations tf.while_loop has run
    step,        \* the last call of model: its positions and how it ended
    logits,      \* the last position's logits of the sampling step
    samples,     \* the id tf.multinomial drew
    pc,          \* where sample_sequence stands
    method,      \* the GPT2Client method called
    interactive, \* generate's interactive
    n_samples,   \* generate's n_samples
    return_text, \* generate's return_text
    batch,       \* generate_batch_from_prompts' batch
    outer,       \* iterations begun of the outer for loop
    inner,       \* iterations done of the inner for loop
    context_tokens, \* enc.encode(prompt)
    out,         \* the sliced result of the last sess.run
    results,     \* text_array / final_generated_text
    returned,    \* what the method returned
    cpc,         \* where the method stands
    bpe_token,   \* bpe's argument
    bpe_word,    \* bpe's word
    bpe_bigram,  \* bpe's bigram
    bpe_out,     \* what bpe returned
    bpc          \* where bpe stands

tokVars == <<bpe_ranks, encoder, cache, text, enc_out, dec_in, dec_out, last>>
samVars == <<logits, samples>>
genVars == <<device, length, temperature, top_k, context, past, prev, output,
             iters, step, pc>>
cliVars == <<method, interactive, n_samples, return_text, batch, outer, inner,
             context_tokens, out, results, returned, cpc>>
bpeVars == <<bpe_token, bpe_word, bpe_bigram, bpe_out, bpc>>
vars == <<tokVars, samVars, genVars, cliVars, bpeVars>>

(***************************************************************************)
(* Bounds of the model.                                                    *)
(***************************************************************************)
MaxLen == 3          \* longest text handed to encode
MaxWarmLen == 2      \* longest text of an earlier encode call (cache warm-up)
MaxIds == 2          \* longest id sequence handed to decode
MaxLength == 3       \* largest token budget (length) of sample_sequence
MaxSamples == 2      \* largest n_samples of generate
MaxBatch == 2        \* longest batch of generate_batch_from_prompts
MaxTokens == 4       \* longest token sequence handed to model
MaxWord == 4         \* longest pre-token handed to bpe

\* Code points of the texts: space, apostrophe, letter s, letter e-acute (the
\* one character here whose UTF-8 form has two bytes).
Alphabet == {32, 39, 115, 233}

RECURSIVE Concat(_)
\* ''.join(seq of strings)
Concat(ss) == IF ss = <<>> THEN <<>> ELSE Head(ss) \o Concat(Tail(ss))

SeqsUpTo(S, n) == UNION {[1..k -> S] : k \in 0..n}

(***************************************************************************)
(* UTF-8 (str.encode('utf-8'), bytearray.decode('utf-8', errors='replace'))*)
(* for code points below U+0800: one byte below U+0080, else two.          *)
(***************************************************************************)
ReplacementChar == 65533

Utf8EncodeChar(cp) ==
    IF cp < 128 THEN <<cp>> ELSE <<192 + (cp \div 64), 128 + (cp % 64)>>

RECURSIVE Utf8Encode(_)
Utf8Encode(s) ==
    IF s = <<>> THEN <<>> ELSE Utf8EncodeChar(Head(s)) \o Utf8Encode(Tail(s))

IsContinuation(b) == b >= 128 /\ b <= 191

\* Whether bs starts with a lead byte 0xC2..0xDF and a continuation byte.
\* Lead bytes of three- and four-byte forms (>= 0xE0) do not occur among the
\* bytes of this model.
StartsTwoByte(bs) ==
    Head(bs) >= 194 /\ Head(bs) <= 223 /\ Len(bs) >= 2 /\ IsContinuation(bs[2])

\* The first character decoded from bs: a byte that starts no valid sequence
\* becomes U+FFFD.
Utf8FirstChar(bs) ==
    IF Head(bs) < 128 THEN Head(bs)
    ELSE IF StartsTwoByte(bs) THEN (Head(bs) - 192) * 64 + (bs[2] - 128)
    ELSE ReplacementChar

\* The number of bytes that character takes; decoding resumes after them.
Utf8FirstWidth(bs) == IF Head(bs) >= 128 /\ StartsTwoByte(bs) THEN 2 ELSE 1

RECURSIVE Utf8DecodeReplace(_)
Utf8DecodeReplace(bs) ==
    IF bs = <<>> THEN <<>>
    ELSE <<Utf8FirstChar(bs)>>
             \o Utf8DecodeReplace(SubSeq(bs, Utf8FirstWidth(bs) + 1, Len(bs)))

(***************************************************************************)
(* bytes_to_unicode: printable bytes stand for themselves, the n-th other  *)
(* byte (counting from 0) for code point 256 + n.                          *)
(***************************************************************************)
PrintableByte(b) ==
    \/ b >= 33 /\ b <= 126
    \/ b >= 161 /\ b <= 172
    \/ b >= 174 /\ b <= 255

bytes_to_unicode(b) ==
    IF PrintableByte(b) THEN b
    ELSE 256 + Cardinality({x \in 0..(b - 1) : ~PrintableByte(x)})

\* Encoder.byte_encoder: the dict bytes_to_unicode() returns.
byte_encoder == [b \in 0..255 |-> bytes_to_unicode(b)]

\* Encoder.byte_decoder: the inverse dict; a code point outside it is a KeyError.
byte_decoder ==
    [c \in {byte_encoder[b] : b \in 0..255} |->
        CHOOSE b \in 0..255 : byte_encoder[b] = c]
InByteDecoder(c) == c \in DOMAIN byte_decoder

\* ''.join(self.byte_encoder[b] for b in token.encode('utf-8'))
ByteEncodeToken(tok) ==
    LET bs == Utf8Encode(tok) IN [i \in 1..Len(bs) |-> byte_encoder[bs[i]]]

(***************************************************************************)
(* Encoder.pat, applied with re.findall: at each position the alternatives *)
(* are tried in order,                                                     *)
(*   's|'t|'re|'ve|'m|'ll|'d| ?\p{L}+| ?\p{N}+| ?[^\s\p{L}\p{N}]+          *)
(*   |\s+(?!\S)|\s+                                                        *)
(* Character classes are those of the code points below U+0100.            *)
(***************************************************************************)
IsSpace(c) == c \in {9, 10, 11, 12, 13, 32, 133, 160}
IsLetter(c) ==
    \/ c >= 65 /\ c <= 90
    \/ c >= 97 /\ c <= 122
    \/ c \in {170, 181, 186}
    \/ c >= 192 /\ c <= 255 /\ c \notin {215, 247}
IsNumber(c) == (c >= 48 /\ c <= 57) \/ c \in {178, 179, 185, 188, 189, 190}
IsOther(c) == ~IsSpace(c) /\ ~IsLetter(c) /\ ~IsNumber(c)

\* Membership in the class named cls: "\s", "\p{L}", "\p{N}" or the negated
\* class "[^\s\p{L}\p{N}]".
InClass(cls, c) ==
    CASE cls = "space" -> IsSpace(c)
      [] cls = "letter" -> IsLetter(c)
      [] cls = "number" -> IsNumber(c)
      [] cls = "other" -> IsOther(c)

\* The contraction suffixes, as code points: 's 't 're 've 'm 'll 'd
Contractions ==
    << <<39, 115>>, <<39, 116>>, <<39, 114, 101>>, <<39, 118, 101>>,
       <<39, 109>>, <<39, 108, 108>>, <<39, 100>> >>

HasPrefixAt(t, i, p) ==
    /\ i + Len(p) - 1 <= Len(t)
    /\ \A k \in 1..Len(p) : t[i + k - 1] = p[k]

\* Length of the longest run of characters of class cls that starts at i.
RunLen(t, i, cls) ==
    CHOOSE n \in 0..(Len(t) - i + 1) :
        /\ \A k \in 0..(n - 1) : InClass(cls, t[i + k])
        /\ (i + n > Len(t) \/ ~InClass(cls, t[i + n]))

\* 1 when the optional literal space of " ?C+" is taken at i, else 0.  None
\* of the three classes holds the space, so it is taken only when a
\* character of the class follows it.
SkipSpace(t, i, cls) ==
    IF t[i] = 32 /\ i < Len(t) /\ InClass(cls, t[i + 1]) THEN 1 ELSE 0

\* The length of a match made of sp optional spaces and a run of n: no
\* match (0) without the run.
OptSpaceLen(sp, n) == IF n = 0 THEN 0 ELSE sp + n

\* " ?C+" at i: the optional space, then a non-empty run of class cls.
OptSpaceRun(t, i, cls) ==
    OptSpaceLen(SkipSpace(t, i, cls), RunLen(t, i + SkipSpace(t, i, cls), cls))

\* The contraction alternatives at i: the length of the first that matches.
ContractionLen(t, i) ==
    LET cs == {k \in 1..Len(Contractions) : HasPrefixAt(t, i, Contractions[k])}
    IN IF cs = {} THEN 0
       ELSE Len(Contractions[CHOOSE k \in cs : \A m \in cs : k <= m])

\* \s+(?!\S) for a whitespace run of ws at i: the whole run when it ends the
\* text, else all but its last character (the lookahead needs whitespace
\* next), which must leave one.
SpaceLookaheadLen(t, i, ws) ==
    IF ws >= 1 /\ i + ws > Len(t) THEN ws
    ELSE IF ws >= 2 THEN ws - 1
    ELSE 0

\* The first alternative that matches: the first positive length.
FirstMatch(lens) ==
    lens[CHOOSE k \in 1..Len(lens) :
            lens[k] > 0 /\ \A j \in 1..(k - 1) : lens[j] = 0]

\* Length of the match of Encoder.pat at position i of t (always >= 1).
MatchLen(t, i) ==
    FirstMatch(<< ContractionLen(t, i),
                  OptSpaceRun(t, i, "letter"),
                  OptSpaceRun(t, i, "number"),
                  OptSpaceRun(t, i, "other"),
                  SpaceLookaheadLen(t, i, RunLen(t, i, "space")),
                  RunLen(t, i, "space") >>)

RECURSIVE FindAllFrom(_, _), TakeMatch(_, _, _)
\* The match of length n at i, then the matches after it.
TakeMatch(t, i, n) == <<SubSeq(t, i, i + n - 1)>> \o FindAllFrom(t, i + n)

FindAllFrom(t, i) == IF i > Len(t) THEN <<>> ELSE TakeMatch(t, i, MatchLen(t, i))

\* re.findall(self.pat, text)
FindAll(t) == FindAllFrom(t, 1)

(***************************************************************************)
(* get_pairs and Encoder.bpe.  A word is a sequence of symbols, a symbol a *)
(* non-empty string.                                                       *)
(***************************************************************************)
get_pairs(word) == {<<word[i], word[i + 1]>> : i \in 1..(Len(word) - 1)}

\* bpe_ranks = dict(zip(bpe_merges, range(len(bpe_merges)))): a pair listed
\* twice keeps its last index.
InRanks(ranks, pair) == \E i \in 1..Len(ranks) : ranks[i] = pair
RankOf(ranks, pair) ==
    (CHOOSE i \in 1..Len(ranks) :
        ranks[i] = pair /\ \A j \in 1..Len(ranks) : ranks[j] = pair => j <= i) - 1

\* The ranked pair of highest rank instead of the lowest.
MaxRankPairs(ranks, pairs) ==
    LET ranked == {p \in pairs : InRanks(ranks, p)}
    IN IF ranked = {} THEN pairs
       ELSE {p \in ranked : \A q \in ranked : RankOf(ranks, p) >= RankOf(ranks, q)}

\* min(pairs, key = rank or inf): the ranked pair of lowest rank, and any pair
\* when none is ranked (the caller then breaks).
MinPairs(ranks, pairs) ==
    LET ranked == {p \in pairs : InRanks(ranks, p)}
    IN IF ranked = {} THEN pairs
       ELSE {p \in ranked : \A q \in ranked : RankOf(ranks, p) <= RankOf(ranks, q)}

\* word.index(first, i): the first position >= i holding `first`, 0 for the
\* ValueError.
IndexFrom(word, first, i) ==
    LET js == {j \in i..Len(word) : word[j] = first}
    IN IF js = {} THEN 0 ELSE CHOOSE j \in js : \A k \in js : j <= k

RECURSIVE MergeScan(_, _, _, _), MergeAt(_, _, _, _, _)
\* One round of the inner while loop, with j = word.index(first, i): the
\* symbols before j are copied; at j either the pair is merged (i = j + 2) or
\* word[j] is copied (i = j + 1).
MergeAt(word, first, second, i, j) ==
    LET pair == j < Len(word) /\ word[j + 1] = second IN
    IF j = 0 THEN SubSeq(word, i, Len(word))
    ELSE SubSeq(word, i, j - 1)
             \o <<IF pair THEN first \o second ELSE word[j]>>
             \o MergeScan(word, first, second, IF pair THEN j + 2 ELSE j + 1)

\* The inner while loop of bpe from position i: new_word's remaining part.
MergeScan(word, first, second, i) ==
    IF i > Len(word) THEN <<>>
    ELSE MergeAt(word, first, second, i, IndexFrom(word, first, i))

RECURSIVE BpeLoop(_, _), BpeMerge(_, _, _), BpeNext(_, _)
\* After the merge: stop on a single symbol, else go round again.
BpeNext(ranks, new_word) ==
    IF Len(new_word) = 1 THEN new_word ELSE BpeLoop(ranks, new_word)

\* The body of the loop for the chosen bigram: break when it is unranked.
BpeMerge(ranks, word, bigram) ==
    IF ~InRanks(ranks, bigram) THEN word
    ELSE BpeNext(ranks, MergeScan(word, bigram[1], bigram[2], 1))

\* The outer while True loop of bpe.
BpeLoop(ranks, word) ==
    BpeMerge(ranks, word, CHOOSE p \in MinPairs(ranks, get_pairs(word)) : TRUE)

RECURSIVE JoinSpace(_)
\* ' '.join(word)
JoinSpace(word) ==
    IF Len(word) <= 1 THEN Concat(word)
    ELSE Head(word) \o <<32>> \o JoinSpace(Tail(word))

RECURSIVE SplitSpace(_)
\* s.split(' ')
SplitSpace(s) ==
    LET js == {j \in 1..Len(s) : s[j] = 32} IN
    IF js = {} THEN <<s>>
    ELSE LET j == CHOOSE k \in js : \A m \in js : k <= m
         IN <<SubSeq(s, 1, j - 1)>> \o SplitSpace(SubSeq(s, j + 1, Len(s)))

\* What a word is split into before merging: tuple(token).
Chars(token) == [i \in 1..Len(token) |-> <<token[i]>>]

\* A cache keyed by the token's first two characters only.
BpeCacheKeyPrefix(token) == SubSeq(token, 1, 2)

\* The key under which bpe stores its result in the cache.
BpeCacheKey(token) == token

\* self.cache[k] = w; return w
BpeStore(c, k, w) ==
    [word |-> w,
     cache |-> [x \in DOMAIN c \cup {k} |-> IF x = k THEN w ELSE c[x]]]

\* Encoder.bpe(token) on cache c: [word |-> the returned string, cache |-> the
\* cache afterwards].
Bpe(ranks, c, token) ==
    IF token \in DOMAIN c THEN [word |-> c[token], cache |-> c]
    ELSE IF get_pairs(Chars(token)) = {} THEN [word |-> token, cache |-> c]
    ELSE BpeStore(c, BpeCacheKey(token), JoinSpace(BpeLoop(ranks, Chars(token))))

(***************************************************************************)
(* The vocabulary (Encoder.encoder / Encoder.decoder): one symbol per byte *)
(* of the alphabet, then each merge result in merge order, then the        *)
(* end-of-text symbol; a symbol's id is its index, counted from 0.         *)
(***************************************************************************)
ModelBytes ==
    UNION {{Utf8EncodeChar(c)[i] : i \in 1..Len(Utf8EncodeChar(c))} : c \in Alphabet}

RECURSIVE SortedSeq(_)
SortedSeq(S) ==
    IF S = {} THEN <<>>
    ELSE LET m == CHOOSE x \in S : \A y \in S : x <= y
         IN <<m>> \o SortedSeq(S \ {m})

ByteSymbols ==
    LET bs == SortedSeq(ModelBytes)
    IN [i \in 1..Len(bs) |-> <<byte_encoder[bs[i]]>>]

\* "<|endoftext|>"
EndOfText == <<60, 124, 101, 110, 100, 111, 102, 116, 101, 120, 116, 124, 62>>

RECURSIVE AppendNew(_, _)
\* seq followed by the elements of more it does not hold yet
AppendNew(seq, more) ==
    IF more = <<>> THEN seq
    ELSE IF \E i \in 1..Len(seq) : seq[i] = Head(more)
         THEN AppendNew(seq, Tail(more))
         ELSE AppendNew(Append(seq, Head(more)), Tail(more))

Vocab(ranks) ==
    AppendNew(ByteSymbols,
              [i \in 1..Len(ranks) |-> ranks[i][1] \o ranks[i][2]] \o <<EndOfText>>)

\* self.encoder[sym] over vocabulary v: the id, or -1 for the KeyError
EncoderId(v, sym) ==
    LET is == {i \in 1..Len(v) : v[i] = sym}
    IN IF is = {} THEN -1 ELSE (CHOOSE i \in is : TRUE) - 1

\* Whether self.decoder[id] exists
InDecoder(v, id) == id >= 0 /\ id < Len(v)
DecoderSym(v, id) == v[id + 1]

\* self.encoder[bpe_token] for bpe_token in syms
IdsOf(v, syms) == [i \in 1..Len(syms) |-> EncoderId(v, syms[i])]

\* bpe_tokens.extend(here), ahead of what the later pre-tokens add
PrependIds(here, rest) == [ids |-> here \o rest.ids, cache |-> rest.cache]

RECURSIVE EncodeTokens(_, _, _, _), EncodeRest(_, _, _, _)
\* The loop body for a pre-token whose bpe call returned r, then the loop
\* over the remaining pre-tokens.
EncodeRest(ranks, v, r, toks) ==
    PrependIds(IdsOf(v, SplitSpace(r.word)), EncodeTokens(ranks, v, r.cache, toks))

\* The for loop of Encoder.encode over the pre-tokens toks, from cache c:
\* [ids, cache].
EncodeTokens(ranks, v, c, toks) ==
    IF toks = <<>> THEN [ids |-> <<>>, cache |-> c]
    ELSE EncodeRest(ranks, v, Bpe(ranks, c, ByteEncodeToken(Head(toks))), Tail(toks))

\* The outcome of encode: a symbol missing from self.encoder is a KeyError.
EncodeResult(r) ==
    IF \E i \in 1..Len(r.ids) : r.ids[i] = -1
    THEN [status |-> "KeyError", ids |-> <<>>, cache |-> r.cache]
    ELSE [status |-> "ok", ids |-> r.ids, cache |-> r.cache]

\* Encoder.encode(text) from cache c: [status, ids, cache]
Encode(ranks, v, c, t) == EncodeResult(EncodeTokens(ranks, v, c, FindAll(t)))

\* Whether decode's first lookup, self.decoder[token] for token in tokens,
\* finds every id.
DecoderHasAll(v, ids) == \A i \in 1..Len(ids) : InDecoder(v, ids[i])

\* The second statement of decode on the joined symbols s: the code points
\* back to bytes (a KeyError for one that stands for no byte), the bytes
\* decoded as UTF-8 with errors='replace'.
DecodeString(s) ==
    IF \E i \in 1..Len(s) : ~InByteDecoder(s[i])
    THEN [status |-> "KeyError", text |-> <<>>]
    ELSE [status |-> "ok",
          text |-> Utf8DecodeReplace([i \in 1..Len(s) |-> byte_decoder[s[i]]])]

\* decode once every id is in the decoder.
DecodeKnown(v, ids) ==
    DecodeString(Concat([i \in 1..Len(ids) |-> DecoderSym(v, ids[i])]))

\* A decode that skips the ids it does not know instead of raising.
DecodeSkipUnknown(v, ids) ==
    DecodeKnown(v, SelectSeq(ids, LAMBDA id : InDecoder(v, id)))

\* Encoder.decode(tokens): [status, text]; the KeyError is raised by the first
\* statement, before any text exists.
Decode(v, ids) ==
    IF ~DecoderHasAll(v, ids) THEN [status |-> "KeyError", text |-> <<>>]
    ELSE DecodeKnown(v, ids)

(***************************************************************************)
(* The tokenizer as a state machine: an Encoder built over one of the      *)
(* merge tables, then encode and decode calls.                             *)
(***************************************************************************)
Sym(b) == <<byte_encoder[b]>>

\* Merge tables over the symbols of the alphabet: none, one that builds the
\* two-byte character, ones whose merges overlap or chain, one that merges
\* across the leading space, one that lists a pair twice.
MergeTables ==
    { <<>>,
      << <<Sym(115), Sym(115)>>, <<Sym(115) \o Sym(115), Sym(115)>> >>,
      << <<Sym(32), Sym(115)>>, <<Sym(115), Sym(115)>> >>,
      << <<Sym(39), Sym(115)>>, <<Sym(32), Sym(39)>> >>,
      << <<Sym(115), Sym(39)>>, <<Sym(39), Sym(115)>>, <<Sym(115), Sym(39)>> >>,
      << <<Sym(195), Sym(169)>>, <<Sym(195) \o Sym(169), Sym(115)>>,
         <<Sym(32), Sym(32)>> >> }

Texts == SeqsUpTo(Alphabet, MaxLen)
WarmTexts == SeqsUpTo(Alphabet, MaxWarmLen)

NoCall == [status |-> "none"]

\* No client method is running.
NoClient ==
    /\ bpe_token = <<>>
    /\ bpe_word = <<>>
    /\ bpe_out = <<>>
    /\ bpe_bigram = <<>>
    /\ bpc = "idle"
    /\ method = "none"
    /\ interactive = FALSE
    /\ n_samples = 0
    /\ return_text = FALSE
    /\ batch = <<>>
    /\ outer = 0
    /\ inner = 0
    /\ context_tokens = <<>>
    /\ out = <<>>
    /\ results = <<>>
    /\ returned = <<>>
    /\ cpc = "idle"

\* No client method is running and no sample_sequence graph exists.
NoGeneration ==
    /\ NoClient
    /\ device = "cpu"
    /\ length = 0
    /\ temperature = 1
    /\ top_k = 0
    /\ context = <<>>
    /\ past = <<>>
    /\ prev = <<>>
    /\ output = <<>>
    /\ iters = 0
    /\ step = [status |-> "none"]
    /\ logits = <<>>
    /\ samples = <<>>
    /\ pc = "idle"

InitEnc ==
    /\ NoGeneration
    /\ bpe_ranks \in MergeTables
    /\ encoder = Vocab(bpe_ranks)
    /\ cache = <<>>
    /\ text = <<>>
    /\ enc_out = NoCall
    /\ dec_in = <<>>
    /\ dec_out = NoCall
    /\ last = "init"

\* enc.encode(t)
EncodeCall(t) ==
    \E r \in {Encode(bpe_ranks, encoder, cache, t)} :
    /\ text' = t
    /\ enc_out' = [status |-> r.status, ids |-> r.ids]
    /\ cache' = r.cache
    /\ UNCHANGED <<bpe_ranks, encoder, dec_in, dec_out, samVars, bpeVars, genVars,
                   cliVars>>

\* An earlier encode call, which leaves its pre-tokens in the cache.
WarmUp ==
    /\ last = "init"
    /\ \E t \in WarmTexts : EncodeCall(t)
    /\ last' = "warm"

EncodeText ==
    /\ last \in {"init", "warm"}
    /\ \E t \in Texts : EncodeCall(t)
    /\ last' = "encode"

\* enc.decode(ids)
DecodeCall(ids) ==
    /\ dec_in' = ids
    /\ dec_out' = Decode(encoder, ids)
    /\ last' = "decode"
    /\ UNCHANGED <<bpe_ranks, encoder, cache, text, enc_out, samVars, bpeVars,
                   genVars, cliVars>>

\* enc.decode(enc.encode(text))
DecodeEncoded ==
    /\ last = "encode"
    /\ enc_out.status = "ok"
    /\ DecodeCall(enc_out.ids)

NextEnc == WarmUp \/ EncodeText \/ DecodeEncoded

SpecEnc == InitEnc /\ [][NextEnc]_vars

\* C1: decode(encode(s)) = s for every text s, whatever the merge table and
\* whatever an earlier encode call left in the cache.
C1_RoundTrip ==
    (last = "decode" /\ dec_in = enc_out.ids) =>
        (dec_out.status = "ok" /\ dec_out.text = text)

\* C1's case: a text with a two-byte character and a merged pair, encoded
\* with a warm cache into fewer ids than it has bytes, then decoded.
C1_Witness ==
    /\ last = "decode"
    /\ cache # <<>>
    /\ \E i \in 1..Len(text) : text[i] = 233
    /\ \E i \in 1..Len(text) : text[i] = 32
    /\ Len(dec_in) < Len(Utf8Encode(text))
    /\ dec_out.text = text

(***************************************************************************)
(* decode on arbitrary id sequences, ids outside the vocabulary included.  *)
(***************************************************************************)
InitDec == InitEnc

\* decode keeps no state: one call on the fresh Encoder shows every outcome.
DecodeIds ==
    /\ last = "init"
    /\ \E ids \in SeqsUpTo(-1..Len(encoder), MaxIds) : DecodeCall(ids)

NextDec == DecodeIds

SpecDec == InitDec /\ [][NextDec]_vars

OutOfVocab(ids) == \E i \in 1..Len(ids) : ids[i] < 0 \/ ids[i] >= Len(encoder)

\* C10: decode of a sequence that holds an id outside [0, vocab_size) fails
\* with the unknown-token error (the KeyError of self.decoder[token]) and
\* yields no text, wherever the bad id stands.
C10_UnknownToken ==
    (last = "decode" /\ OutOfVocab(dec_in)) =>
        (dec_out.status = "KeyError" /\ dec_out.text = <<>>)

\* C10's case: the bad id is the last one, after an id that decodes.
C10_Witness ==
    /\ last = "decode"
    /\ Len(dec_in) = 2
    /\ dec_in[1] \in 0..(Len(encoder) - 1)
    /\ dec_in[2] = Len(encoder)
    /\ dec_out.status = "KeyError"

(***************************************************************************)
(* The sampler: the last three statements of sample_sequence's body,       *)
(*   logits = logits[:, -1, :] / tf.to_float(temperature)                  *)
(*   logits = top_k_logits(logits, k=top_k)                                *)
(*   samples = tf.multinomial(logits, num_samples=1)                       *)
(* for batch_size = 1.  A score is an integer in units of 5: the row       *)
(* [0, 2, 4] stands for the logits [0.0, 10.0, 20.0].                      *)
(***************************************************************************)
n_vocab == 3         \* hparams.n_vocab of the model: the ids are 0..n_vocab-1
n_ctx == 3           \* hparams.n_ctx of the model
n_layer == 2         \* hparams.n_layer of the model

TokenIds == 0..(n_vocab - 1)
Scores == {0, 2, 4}
Rows == [TokenIds -> Scores]
Temperatures == {-1, 0, 1, 2}

\* -1e10, in the units of the scores
MaskValue == -2000000000

\* exp(x - max) is 0 in float32 once max - x exceeds 105 (21 units): such an
\* entry is never drawn.  Kept scores differ by far less, MaskValue by far
\* more.
SupportGap == 21

\* logits / temperature, temperature # 0 (the scores are multiples of it)
Divide(row, t) == [i \in DOMAIN row |-> row[i] \div t]

\* values[:, -1] of tf.nn.top_k(logits, k): the k-th largest entry, counted
\* with repetitions
KthLargest(row, k) ==
    CHOOSE v \in {row[i] : i \in DOMAIN row} :
        /\ Cardinality({i \in DOMAIN row : row[i] > v}) < k
        /\ Cardinality({i \in DOMAIN row : row[i] >= v}) >= k

\* tf.where(logits < min_values, -1e10, logits)
MaskBelow(row, min_values) ==
    [i \in DOMAIN row |-> IF row[i] < min_values THEN MaskValue ELSE row[i]]

\* A filter that also masks the entries equal to the k-th largest.
TopKStrict(row, k) ==
    IF k = 0 THEN row
    ELSE [i \in DOMAIN row |->
            IF row[i] <= KthLargest(row, k) THEN MaskValue ELSE row[i]]

\* A filter that truncates nothing.
TopKNone(row, k) == row

top_k_logits(row, k) ==
    IF k = 0 THEN row ELSE MaskBelow(row, KthLargest(row, k))

RowMax(row) ==
    CHOOSE v \in {row[i] : i \in DOMAIN row} : \A j \in DOMAIN row : row[j] <= v

\* The ids tf.multinomial can draw from a row of finite logits: those whose
\* softmax probability is not 0.
Multinomial(row) == {i \in DOMAIN row : RowMax(row) - row[i] < SupportGap}

\* The ids the sampling step can draw from the model's row.  With temperature
\* 0 every logit is inf, -inf or nan and what tf.multinomial returns is
\* unspecified: any id, the out-of-range n_vocab included.
SampleSet(row, t, k) ==
    IF t = 0 THEN 0..n_vocab
    ELSE Multinomial(top_k_logits(Divide(row, t), k))

\* The ids the sampling step can draw, over the rows the model can return
Samples(t, k) == UNION {SampleSet(row, t, k) : row \in Rows}

InitSample ==
    /\ NoGeneration
    /\ bpe_ranks = <<>>
    /\ encoder = <<>>
    /\ cache = <<>>
    /\ text = <<>>
    /\ enc_out = NoCall
    /\ dec_in = <<>>
    /\ dec_out = NoCall
    /\ last = "init"

\* One sampling step on a row the model returned.
SampleStep ==
    /\ pc = "idle"
    /\ \E row \in Rows, t \in Temperatures, k \in 0..n_vocab :
          /\ logits' = row
          /\ temperature' = t
          /\ top_k' = k
          /\ samples' \in SampleSet(row, t, k)
    /\ pc' = "sampled"
    /\ UNCHANGED <<tokVars, bpeVars, cliVars, device, length, context, past, prev, output,
                   iters, step>>

NextSample == SampleStep

SpecSample == InitSample /\ [][NextSample]_vars

\* The post-temperature row and what top_k_logits makes of it.
Scaled == Divide(logits, temperature)
Filtered == top_k_logits(Scaled, top_k)
Unmasked == {i \in TokenIds : Filtered[i] # MaskValue}
Filtering == pc = "sampled" /\ temperature # 0 /\ top_k >= 1

ArgMax == {i \in TokenIds : \A j \in TokenIds : Scaled[i] >= Scaled[j]}
Greedy == pc = "sampled" /\ temperature # 0 /\ top_k = 1

PositionsFromZero(tokens, past_length) == [i \in 1..Len(tokens) |-> i - 1]

\* A mask that hides no key.
MaskNone(nd, ns) == [i \in 0..(nd - 1) |-> [j \in 0..(ns - 1) |-> TRUE]]

(***************************************************************************)
(* model and sample_sequence.  A cache entry records the token and the     *)
(* absolute position its keys and values were computed from; the numeric   *)
(* content of the logits is left open (any row of Rows).                   *)
(***************************************************************************)
\* positions_for(tokens, past_length): past_length + tf.range(nsteps)
positions_for(tokens, past_length) ==
    [i \in 1..Len(tokens) |-> past_length + (i - 1)]

\* past_length = 0 if past is None else tf.shape(past)[-2]
PastLength(p) == Len(p)

\* tf.gather(wpe, positions) reads outside wpe's n_ctx rows
PositionOverflow(X, p) ==
    \E i \in 1..Len(X) : positions_for(X, PastLength(p))[i] >= n_ctx

\* tf.gather(wte, X) reads outside wte's n_vocab rows
TokenOutOfRange(X) == \E i \in 1..Len(X) : X[i] \notin TokenIds

\* How tf.gather ends on a build when an index is out of range: an
\* InvalidArgumentError on the CPU kernel; on the GPU kernel no error, the
\* row read is all zeros.
GatherOutcome(dev, out_of_range) ==
    IF out_of_range /\ dev = "cpu" THEN "error" ELSE "ok"

\* h = tf.gather(wte, X) + tf.gather(wpe, positions): per token the rows read,
\* -1 for the zero row an out-of-range index reads on the GPU kernel
Embed(X, positions) ==
    [i \in 1..Len(X) |->
        [wte |-> IF X[i] \in TokenIds THEN X[i] ELSE -1,
         wpe |-> IF positions[i] < n_ctx THEN positions[i] ELSE -1]]

\* attention_mask(nd, ns): m[i][j] for query i of the step and key j
attention_mask(nd, ns) ==
    [i \in 0..(nd - 1) |-> [j \in 0..(ns - 1) |-> i >= j - ns + nd]]

\* mask_attn_weights and softmax for one query: the keys whose weight is
\* not masked to -1e10, each with its index on the key axis
mask_attn_weights(keys, b) ==
    {<<j, keys[j + 1]>> : j \in {jj \in 0..(Len(keys) - 1) : b[jj]}}

\* attn(x, past): what each query reads.  present is [k, v] of the tokens
\* of the step, k and v the cached ones followed by them.
attn(x, layer_past) ==
    [i \in 1..Len(x) |->
        mask_attn_weights(layer_past \o x,
                          attention_mask(Len(x), Len(layer_past) + Len(x))[i - 1])]

\* block(x, past): x + attn(norm(x)), then the position-wise mlp
\* (\o <<>> has the sequence built once, not at every use)
block(x, layer_past) ==
    [i \in 1..Len(x) |-> [x |-> x[i], a |-> attn(x, layer_past)[i]]] \o <<>>

\* pasts = tf.unstack(past, axis=1): the cache of one layer
LayerPast(p, layer) == [j \in 1..Len(p) |-> p[j].kv[layer]] \o <<>>

\* The for loop over the layers: hs[l + 1] is the input of layer l + 1 (from
\* which its present is computed), the last entry the output of the last layer.
RECURSIVE Hiddens(_, _)
Hiddens(hs, p) ==
    IF Len(hs) = n_layer + 1 THEN hs
    ELSE Hiddens(Append(hs, block(hs[Len(hs)], LayerPast(p, Len(hs)))), p)

\* results['present'] = tf.stack(presents, axis=1), one entry per token of X
PresentsOf(X, positions, hs) ==
    [i \in 1..Len(X) |->
        [tok |-> X[i], pos |-> positions[i],
         kv |-> [layer \in 1..n_layer |-> hs[layer][i]]]]

Presents(X, p) ==
    PresentsOf(X, positions_for(X, PastLength(p)),
               Hiddens(<<Embed(X, positions_for(X, PastLength(p)))>>, p))

\* results['logits']: per token of X what its logits are computed from
LogitsOf(hs) == hs[n_layer + 1]

Logits(X, p) == LogitsOf(Hiddens(<<Embed(X, positions_for(X, PastLength(p)))>>, p))

\* model(hparams, X, past) on build dev: how the call ends, the positions it
\* used and the cache entries it returns.
Model(dev, X, p) ==
    [status |-> GatherOutcome(dev, PositionOverflow(X, p) \/ TokenOutOfRange(X)),
     positions |-> positions_for(X, PastLength(p)),
     presents |-> Presents(X, p),
     logits |-> Logits(X, p)]

\* A cache that keeps only the newest presents.
ReplacePast(p, presents) == presents

\* next_outputs['presents'] if past is None else
\* tf.concat([past, next_outputs['presents']], axis=-2)
ExtendPast(p, presents) == IF p = <<>> THEN presents ELSE p \o presents

\* A next input that is the whole sequence so far.
WholeOutput(tokens, tok) == Append(tokens, tok)

\* The second loop variable body returns, the next call's input: samples
NextPrev(tokens, tok) == <<tok>>

\* maximum_iterations of the tf.while_loop
MaximumIterations(len) == len - 1

\* One initial sequence per length, up to one token more than the context
\* holds.
Contexts == {[i \in 1..n |-> (i - 1) % n_vocab] : n \in 1..(n_ctx + 1)}

InitGen ==
    /\ NoClient
    /\ bpe_ranks = <<>>
    /\ encoder = <<>>
    /\ cache = <<>>
    /\ text = <<>>
    /\ enc_out = NoCall
    /\ dec_in = <<>>
    /\ dec_out = NoCall
    /\ last = "init"
    /\ logits = <<>>
    /\ samples = <<>>
    /\ device \in {"cpu", "gpu"}
    /\ length \in 1..MaxLength
    /\ temperature \in Temperatures
    /\ top_k \in 0..n_vocab
    /\ context \in Contexts
    /\ past = <<>>
    /\ prev = context
    /\ output = context
    /\ iters = 0
    /\ step = [status |-> "none"]
    /\ pc = "start"

\* body(past, prev, output) when the model call returned m: on an error the
\* run raises and returns nothing; else a token is sampled, the cache is
\* extended by the presents, and the token is the next prev and is appended
\* to output.
Body(m, next_pc) ==
    /\ step' = [status |-> m.status, positions |-> m.positions,
                 logits |-> m.logits]
    /\ IF m.status = "error"
       THEN /\ pc' = "error"
            /\ UNCHANGED <<past, prev, output>>
       ELSE /\ pc' = next_pc
            /\ past' = ExtendPast(past, m.presents)
            /\ \E tok \in Samples(temperature, top_k) :
                  /\ prev' = NextPrev(output, tok)
                  /\ output' = Append(output, tok)
    /\ UNCHANGED <<tokVars, samVars, bpeVars, cliVars, device, length, temperature, top_k,
                   context>>

\* past, prev, output = body(None, context, context)
FirstBody ==
    /\ pc = "start"
    /\ Body(Model(device, prev, past), "loop")
    /\ UNCHANGED iters

\* One iteration of the tf.while_loop (cond is always True)
LoopBody ==
    /\ pc = "loop"
    /\ iters < MaximumIterations(length)
    /\ Body(Model(device, prev, past), "loop")
    /\ iters' = iters + 1

\* The tf.while_loop ends after maximum_iterations; tokens = output
LoopExit ==
    /\ pc = "loop"
    /\ iters >= MaximumIterations(length)
    /\ pc' = "done"
    /\ UNCHANGED <<tokVars, samVars, bpeVars, cliVars, device, length, temperature, top_k,
                   context, past, prev, output, iters, step>>

NextGen == FirstBody \/ LoopBody \/ LoopExit

SpecGen == InitGen /\ [][NextGen]_vars

\* ---------------------------------------------------------------------
\* GPT2Client.generate and GPT2Client.generate_batch_from_prompts

\* batch_size, temperature and top_k of both methods
batch_size == 1
ClientTemperature == 1
ClientTopK == 40

\* The prompts typed at input() or listed in batch
Prompts == {<<>>, <<115>>, <<115, 32, 115>>}

\* The random draws that tell one run of the graph from another
Draws == {0, 1}

\* start_token=enc.encoder['<|endoftext|>']
StartToken(v) == EncoderId(v, EndOfText)

\* context = tf.fill([batch_size, 1], start_token): the initial sequence of
\* the graph sample_sequence builds when it is given start_token
StartContext(v) == <<StartToken(v)>>

\* sess.run(output): the tokens of one run of sample_sequence from ctx with
\* budget len over a vocabulary of nv ids, none of whose steps fails: ctx
\* followed by len sampled ids. The feed_dict is no argument: the placeholder
\* it feeds is not an input of the graph.
SessRun(ctx, len, nv) == {ctx \o [i \in 1..len |-> (d + i) % nv] : d \in Draws}

\* tokens[n:]
Slice(tokens, n) == SubSeq(tokens, n + 1, Len(tokens))

InitClient == InitEnc

\* The part both methods share: get_encoder, length = hparams.n_ctx and the
\* sample_sequence graph.
BuildGraph ==
    /\ cache' = <<>>
    /\ length' = n_ctx
    /\ temperature' = ClientTemperature
    /\ top_k' = ClientTopK
    /\ context' = StartContext(encoder)
    /\ outer' = 0
    /\ inner' = 0
    /\ results' = <<>>
    /\ UNCHANGED <<bpe_ranks, encoder, text, enc_out, dec_in, dec_out, last,
                   samVars, bpeVars, device, past, prev, output, iters, step, pc,
                   context_tokens, out, returned>>

\* generate(interactive, n_samples, return_text=...) up to its first loop
CallGenerate ==
    /\ cpc = "idle"
    /\ method' = "generate"
    /\ interactive' \in BOOLEAN
    /\ n_samples' \in 0..MaxSamples
    /\ return_text' \in BOOLEAN
    /\ batch' = <<>>
    /\ cpc' = IF interactive' THEN "prompt" ELSE "scratch"
    /\ BuildGraph

\* generate_batch_from_prompts(batch) up to its first loop
CallBatch ==
    /\ cpc = "idle"
    /\ method' = "batch"
    /\ batch' \in SeqsUpTo(Prompts, MaxBatch)
    /\ cpc' = "prompt"
    /\ BuildGraph
    /\ UNCHANGED <<interactive, n_samples, return_text>>

\* One iteration of generate's while loop: sess.run(output), then
\* text.append with text a local that is not yet bound
Scratch ==
    /\ cpc = "scratch"
    /\ n_samples = 0 \/ inner < n_samples
    /\ output' \in SessRun(context, length, Len(encoder))
    /\ out' = output'
    /\ inner' = inner + batch_size
    /\ cpc' = "UnboundLocalError"
    /\ UNCHANGED <<tokVars, samVars, bpeVars, device, length, temperature, top_k, context,
                   past, prev, iters, step, pc, method, interactive, n_samples,
                   return_text, batch, outer, context_tokens, results, returned>>

\* context_tokens = enc.encode(prompt) at the head of an outer iteration
TakePrompt(prompt, r) ==
    /\ text' = prompt
    /\ enc_out' = [status |-> r.status, ids |-> r.ids]
    /\ cache' = r.cache
    /\ context_tokens' = r.ids
    /\ outer' = outer + 1
    /\ inner' = 0
    /\ cpc' = IF r.status = "ok" THEN "runs" ELSE r.status
    /\ UNCHANGED <<bpe_ranks, encoder, dec_in, dec_out, last, samVars, bpeVars, genVars,
                   method, interactive, n_samples, return_text, batch, out,
                   returned>>

\* for _ in range(n_samples): prompt = input(...); text_array = []
ReadPrompt ==
    /\ cpc = "prompt"
    /\ method = "generate"
    /\ outer < n_samples
    /\ \E prompt \in Prompts :
          \E r \in {Encode(bpe_ranks, encoder, cache, prompt)} :
              TakePrompt(prompt, r)
    /\ results' = <<>>

\* for i in batch
BatchPrompt ==
    /\ cpc = "prompt"
    /\ method = "batch"
    /\ outer < Len(batch)
    /\ \E r \in {Encode(bpe_ranks, encoder, cache, batch[outer + 1])} :
          TakePrompt(batch[outer + 1], r)
    /\ UNCHANGED results

\* out = sess.run(output, feed_dict=...)[:, len(context_tokens):] and the
\* append of enc.decode(out[i]), tagged with the outer iteration it is in
RunOnce(tokens) ==
    /\ output' = tokens
    /\ out' = Slice(tokens, Len(context_tokens))
    /\ dec_in' = out'
    /\ dec_out' = Decode(encoder, out')
    /\ results' = Append(results, [prompt |-> outer, text |-> dec_out'.text])
    /\ inner' = inner + 1
    /\ UNCHANGED <<bpe_ranks, encoder, cache, text, enc_out, last, samVars, bpeVars,
                   device, length, temperature, top_k, context, past, prev,
                   iters, step, pc, method, interactive, n_samples, return_text,
                   batch, outer, context_tokens>>

\* One iteration of generate's inner loop, with its `return text_array`
InteractiveRun ==
    /\ cpc = "runs"
    /\ method = "generate"
    /\ inner < n_samples \div batch_size
    /\ \E tokens \in SessRun(context, length, Len(encoder)) : RunOnce(tokens)
    /\ IF return_text
       THEN cpc' = "returned" /\ returned' = results'
       ELSE UNCHANGED <<cpc, returned>>

\* One iteration of generate_batch_from_prompts' inner loop
BatchRun ==
    /\ cpc = "runs"
    /\ method = "batch"
    /\ inner < Len(batch) \div batch_size
    /\ \E tokens \in SessRun(context, length, Len(encoder)) : RunOnce(tokens)
    /\ UNCHANGED <<cpc, returned>>

\* The inner loop of either method is exhausted.
InnerDone ==
    /\ cpc = "runs"
    /\ inner >= (IF method = "batch" THEN Len(batch) ELSE n_samples) \div batch_size
    /\ cpc' = "prompt"
    /\ UNCHANGED <<tokVars, samVars, bpeVars, genVars, method, interactive, n_samples,
                   return_text, batch, outer, inner, context_tokens, out,
                   results, returned>>

\* generate's outer loop is exhausted: the method falls off its end.
GenerateEnd ==
    /\ cpc = "prompt"
    /\ method = "generate"
    /\ outer >= n_samples
    /\ cpc' = "returned None"
    /\ UNCHANGED <<tokVars, samVars, bpeVars, genVars, method, interactive, n_samples,
                   return_text, batch, outer, inner, context_tokens, out,
                   results, returned>>

\* return final_generated_text
BatchReturn ==
    /\ cpc = "prompt"
    /\ method = "batch"
    /\ outer >= Len(batch)
    /\ cpc' = "returned"
    /\ returned' = results
    /\ UNCHANGED <<tokVars, samVars, bpeVars, genVars, method, interactive, n_samples,
                   return_text, batch, outer, inner, context_tokens, out,
                   results>>

NextClient ==
    \/ CallGenerate
    \/ CallBatch
    \/ Scratch
    \/ ReadPrompt
    \/ BatchPrompt
    \/ InteractiveRun
    \/ BatchRun
    \/ InnerDone
    \/ GenerateEnd
    \/ BatchReturn

SpecClient == InitClient /\ [][NextClient]_vars

\* The method has run the graph at least once in the current iteration.
HasRun == inner > 0

\* The method was given a prompt for the current run.
Prompted == method = "batch" \/ (method = "generate" /\ interactive)

\* The call has ended.
Ended == cpc \notin {"idle", "scratch", "prompt", "runs"}

\* ---------------------------------------------------------------------
\* model(hparams, X, past) called over a token sequence in steps: each call
\* is given the next tokens and the cache the calls before it returned.

TokenSeqs == SeqsUpTo(TokenIds, MaxTokens) \ {<<>>}

\* context is the whole sequence, output the tokens handed to model so far,
\* prev those of the last call.
InitModel ==
    /\ NoClient
    /\ bpe_ranks = <<>>
    /\ encoder = <<>>
    /\ cache = <<>>
    /\ text = <<>>
    /\ enc_out = NoCall
    /\ dec_in = <<>>
    /\ dec_out = NoCall
    /\ last = "init"
    /\ logits = <<>>
    /\ samples = <<>>
    /\ device \in {"cpu", "gpu"}
    /\ length = 0
    /\ temperature = 1
    /\ top_k = 0
    /\ context \in TokenSeqs
    /\ past = <<>>
    /\ prev = <<>>
    /\ output = <<>>
    /\ iters = 0
    /\ step = [status |-> "none"]
    /\ pc = "model"

\* model(hparams, X, past) returned m
ModelReturn(X, m) ==
    /\ prev' = X
    /\ output' = output \o X
    /\ iters' = iters + 1
    /\ step' = [status |-> m.status, positions |-> m.positions, logits |-> m.logits]
    /\ IF m.status = "error"
       THEN pc' = "error" /\ UNCHANGED past
       ELSE pc' = "model" /\ past' = ExtendPast(past, m.presents)
    /\ UNCHANGED <<tokVars, samVars, bpeVars, cliVars, device, length, temperature, top_k,
                   context>>

\* One call on the next nd tokens of the sequence
ModelCall ==
    /\ pc = "model"
    /\ \E nd \in 1..(Len(context) - Len(output)) :
          \E X \in {SubSeq(context, Len(output) + 1, Len(output) + nd)} :
              ModelReturn(X, Model(device, X, past))

NextModel == ModelCall

SpecModel == InitModel /\ [][NextModel]_vars

\* model over all the tokens handed over so far, in one call with no cache
FullRun == Model(device, output, <<>>)

\* Where the tokens of the last call stand in the sequence.
Offset == Len(output) - Len(prev)

\* The key indices query i of the last call read in the last layer.
KeysRead(i) == {e[1] : e \in step.logits[i].a}

\* seq with the token at j replaced by t
Changed(seq, j, t) == [seq EXCEPT ![j] = t]

\* C11: the calls over a sequence, each with the cache of those before it,
\* end as one call over the whole sequence with no cache does; when they
\* succeed, every token of the last call has the position, and the logits
\* computed from the same positions and attended keys, that the one call
\* gives it, and the cache equals the one call's presents.
C11_CacheEquivalence ==
    step.status # "none" =>
        LET full == FullRun IN
        /\ step.status = full.status
        /\ step.status = "ok" =>
              /\ past = full.presents
              /\ \A i \in 1..Len(prev) :
                    /\ step.positions[i] = full.positions[Offset + i]
                    /\ step.logits[i] = full.logits[Offset + i]

\* A sequence of three or more tokens was handed over one token at a time.
C11_Witness ==
    /\ step.status = "ok"
    /\ Len(output) >= 3
    /\ iters = Len(output)
    /\ Len(past) = Len(output)

\* C12: whatever the number of cached positions and of tokens in a call, the
\* query at absolute position p reads exactly the keys j <= p, and replacing
\* a token at a later position leaves its logits as they are.
C12_Causality ==
    step.status = "ok" =>
        \A i \in 1..Len(prev) :
            /\ KeysRead(i) = 0..step.positions[i]
            /\ \A j \in (Offset + i + 1)..Len(output) : \A t \in TokenIds :
                  Logits(Changed(output, j, t), <<>>)[Offset + i] = step.logits[i]

\* A call with cached positions and several tokens, whose first query has
\* later tokens in the same call.
C12_Witness ==
    /\ step.status = "ok"
    /\ Len(prev) >= 2
    /\ Offset >= 1

\* ---------------------------------------------------------------------
\* Encoder.bpe(token), one action per round of its while True loop

\* The pre-tokens encode hands to bpe: non-empty strings of byte symbols
BpeTokens ==
    SeqsUpTo({byte_encoder[b] : b \in ModelBytes}, MaxWord) \ {<<>>}

InitBpe ==
    /\ method = "none"
    /\ interactive = FALSE
    /\ n_samples = 0
    /\ return_text = FALSE
    /\ batch = <<>>
    /\ outer = 0
    /\ inner = 0
    /\ context_tokens = <<>>
    /\ out = <<>>
    /\ results = <<>>
    /\ returned = <<>>
    /\ cpc = "idle"
    /\ device = "cpu"
    /\ length = 0
    /\ temperature = 1
    /\ top_k = 0
    /\ context = <<>>
    /\ past = <<>>
    /\ prev = <<>>
    /\ output = <<>>
    /\ iters = 0
    /\ step = [status |-> "none"]
    /\ pc = "idle"
    /\ logits = <<>>
    /\ samples = <<>>
    /\ bpe_ranks \in MergeTables
    /\ encoder = Vocab(bpe_ranks)
    /\ cache = <<>>
    /\ text = <<>>
    /\ enc_out = NoCall
    /\ dec_in = <<>>
    /\ dec_out = NoCall
    /\ last = "init"
    /\ bpe_token \in BpeTokens
    /\ bpe_word = <<>>
    /\ bpe_bigram = <<>>
    /\ bpe_out = <<>>
    /\ bpc = "call"

\* bpe up to its loop: the cache lookup, word = tuple(token), and the return
\* of a token that has no pair
BpeEnter ==
    /\ bpc = "call"
    /\ IF bpe_token \in DOMAIN cache
       THEN bpc' = "returned" /\ bpe_out' = cache[bpe_token] /\ UNCHANGED bpe_word
       ELSE /\ bpe_word' = Chars(bpe_token)
            /\ IF get_pairs(bpe_word') = {}
               THEN bpc' = "returned" /\ bpe_out' = bpe_token
               ELSE bpc' = "loop" /\ UNCHANGED bpe_out
    /\ UNCHANGED <<tokVars, samVars, genVars, cliVars, bpe_token, bpe_bigram>>

\* One round of the while True loop with the bigram min() gave
BpeRound(b) ==
    /\ bpe_bigram' = b
    /\ IF ~InRanks(bpe_ranks, b)
       THEN bpc' = "join" /\ UNCHANGED bpe_word
       ELSE /\ bpe_word' = MergeScan(bpe_word, b[1], b[2], 1)
            /\ bpc' = IF Len(bpe_word') = 1 THEN "join" ELSE "loop"
    /\ UNCHANGED <<tokVars, samVars, genVars, cliVars, bpe_token, bpe_out>>

BpeIterate ==
    /\ bpc = "loop"
    /\ \E b \in {CHOOSE p \in MinPairs(bpe_ranks, get_pairs(bpe_word)) : TRUE} :
          BpeRound(b)

\* word = ' '.join(word); self.cache[token] = word; return word
BpeReturn ==
    /\ bpc = "join"
    /\ \E r \in {BpeStore(cache, BpeCacheKey(bpe_token), JoinSpace(bpe_word))} :
          /\ bpe_out' = r.word
          /\ cache' = r.cache
    /\ bpc' = "returned"
    /\ UNCHANGED <<bpe_ranks, encoder, text, enc_out, dec_in, dec_out, last,
                   samVars, genVars, cliVars, bpe_token, bpe_word, bpe_bigram>>

NextBpe == BpeEnter \/ BpeIterate \/ BpeReturn

SpecBpe == InitBpe /\ [][NextBpe]_vars /\ WF_vars(NextBpe)

\* The adjacent pairs of the word that the rank table lists.
RankedPairs == {p \in get_pairs(bpe_word) : InRanks(bpe_ranks, p)}

\* The listed adjacent pairs of lowest rank.
LowestPairs ==
    {p \in RankedPairs :
        \A q \in RankedPairs : RankOf(bpe_ranks, p) <= RankOf(bpe_ranks, q)}

RECURSIVE MergeAll(_, _)
\* w with every occurrence of the pair p merged, taken left to right without
\* overlap
MergeAll(w, p) ==
    IF Len(w) < 2 THEN w
    ELSE LET hit == <<w[1], w[2]>> = p
         IN <<IF hit THEN w[1] \o w[2] ELSE w[1]>>
                \o MergeAll(SubSeq(w, IF hit THEN 3 ELSE 2, Len(w)), p)

\* The symbols of the word always spell the token, and so does what is
\* returned; the returned string is what Encoder.bpe gives encode.
BpeSpells ==
    /\ bpc \in {"loop", "join"} => Concat(bpe_word) = bpe_token
    /\ bpc = "returned" =>
          /\ Concat(SplitSpace(bpe_out)) = bpe_token
          /\ bpe_out = Bpe(bpe_ranks, <<>>, bpe_token).word

\* A round merges the listed pair of lowest rank, everywhere, and the loop
\* goes on unless one symbol is left; with no listed pair it stops and leaves
\* the word alone.
BpeRoundRule ==
    bpc = "loop" =>
        IF RankedPairs = {}
        THEN bpc' = "join" /\ bpe_word' = bpe_word
        ELSE /\ \E p \in LowestPairs : bpe_word' = MergeAll(bpe_word, p)
             /\ bpc' = (IF Len(bpe_word') = 1 THEN "join" ELSE "loop")

\* C13: bpe repeatedly merges every non-overlapping occurrence, left to
\* right, of the adjacent pair of lowest rank; it stops exactly when no
\* adjacent pair is ranked or one symbol remains; it terminates, and the
\* returned symbols spell the token.
C13_BpeMergeLoop ==
    /\ []BpeSpells
    /\ [][BpeRoundRule]_vars
    /\ <>(bpc = "returned")

\* bpe returned after two rounds or more that merged, the last of which left
\* several symbols.
C13_Witness ==
    /\ bpc = "returned"
    /\ Len(bpe_word) >= 2
    /\ Len(bpe_word) <= Len(bpe_token) - 2

\* C4: with temperature <= 0 sampling fails before any computation: no model
\* step is run and no token is sampled or appended.
C4_RejectsTemperature ==
    temperature <= 0 => (past = <<>> /\ output = context /\ pc # "done")

\* C5: the loop stops after appending exactly `length` tokens, or earlier
\* where the next step would need a position >= n_ctx; it never runs a step
\* past either limit.
C5_StopsAtLimits ==
    /\ Len(output) - Len(context) <= length
    /\ \A i \in 1..Len(past) : past[i].pos < n_ctx
    /\ pc = "done" => Len(output) - Len(context) = length

\* C6: a model step in which some token gets a position >= n_ctx fails; it
\* returns no logits and no cache extension.
C6_OverflowFails ==
    (step.status # "none" /\ \E i \in 1..Len(step.positions) :
                                step.positions[i] >= n_ctx)
        => step.status = "error"

\* C7: a run for a prompt starts from the encoding of the prompt and returns
\* the tokens sampled after it; a run without a prompt starts from the single
\* start token.
C7_PromptIsContext ==
    HasRun =>
        IF Prompted
        THEN context = context_tokens /\ out = Slice(output, Len(context))
        ELSE context = StartContext(encoder)

\* C8: generate(interactive=False, n_samples=n, return_text=True) returns
\* exactly n generated strings.
C8_ReturnsNSamples ==
    (method = "generate" /\ ~interactive /\ return_text /\ n_samples > 0 /\ Ended)
        => (cpc = "returned" /\ Len(returned) = n_samples)

\* C9: generate_batch_from_prompts returns one text per prompt of the batch,
\* in the order of the batch.
C9_OnePerPrompt ==
    (method = "batch" /\ Ended) =>
        /\ cpc = "returned"
        /\ Len(returned) = Len(batch)
        /\ \A i \in 1..Len(returned) : returned[i].prompt = i

\* The generation loop is between two steps, none of which failed.
Running == pc \in {"loop", "done"}

\* C14: the cache is empty before the first step; after every step its
\* length is the number of tokens processed so far, the initial sequence
\* included, entry by entry for the tokens of output in order; the first step
\* adds the length of the initial sequence, each later step exactly one, and
\* no step removes or changes an entry.
C14_SeenLength ==
    /\ [](pc = "start" => Len(past) = 0)
    /\ [](Running =>
            /\ Len(past) = Len(context) + iters
            /\ \A i \in 1..Len(past) : past[i].tok = output[i] /\ past[i].pos = i - 1)
    /\ [][/\ SubSeq(past', 1, Len(past)) = past
          /\ (pc = "start" /\ pc' = "loop") => Len(past') = Len(context)
          /\ (pc = "loop" /\ pc' = "loop" /\ iters' # iters) =>
                Len(past') = Len(past) + 1]_vars

\* Two steps after the first extended the cache.
C14_Witness == Running /\ iters >= 2 /\ Len(context) >= 2

\* C15: the input of every step is the tokens of output the cache does not
\* hold yet: the whole initial sequence for the first step, the one token
\* appended last for every later one; every step that succeeds appends one
\* id to output and changes nothing before it.
C15_NewestOnly ==
    /\ [](pc = "start" => prev = context /\ output = context)
    /\ [](pc = "loop" =>
            /\ prev = <<output[Len(output)]>>
            /\ prev = SubSeq(output, Len(past) + 1, Len(output)))
    /\ [][/\ step' # step => Len(step'.positions) = Len(prev)
          /\ output' # output =>
                /\ Len(output') = Len(output) + 1
                /\ SubSeq(output', 1, Len(output)) = output
                /\ prev' = <<output'[Len(output')]>>
          /\ SubSeq(output', 1, Len(context)) = context]_vars

\* The loop fed a sampled token after an initial sequence of several tokens.
C15_Witness ==
    /\ pc = "loop"
    /\ iters >= 1
    /\ Len(context) >= 2
    /\ Len(step.positions) = 1

====
